---- MODULE Spec2Model ----
(***************************************************************************)
(* Frame scheduler (App.startDetection / processFrame / stopDetection) and *)
(* segmentation session manager (useSegmentation) of the video background  *)
(* filter, as one state machine.                                           *)
(*                                                                         *)
(* JavaScript runs every handler to its first await without interleaving,  *)
(* so each action below is one such run: a click handler, an animation     *)
(* frame callback, the provider's onResults callback, or the continuation  *)
(* of a tick after `await processSegmentation(video)`.                     *)
(*                                                                         *)
(* The program state is held in the VARIABLES; operators named after the   *)
(* source functions map a state record to the state record after the call, *)
(* which lets a handler be the composition of the calls it makes.          *)
(***************************************************************************)
EXTENDS Integers, Sequences, FiniteSets, Bags, TLC

\* ---- bounds of the model
MaxClock == 2
MaxRuns == 2
MaxDim == 2
MaxPending == 2
MaxPixels == 2

\* ---- program constants
FpsWindow == 30
DEFAULT_THRESHOLD == 255

VARIABLES
  \* useSegmentation
  isModelLoaded, error, segmentationRef, canvasRef, latestResultRef,
  sessionIdRef, isProcessingEnabledRef,
  \* App
  isDetectingRef, isFrameProcessingRef, animationFrameRef, fpsCounterRef,
  lastFrameTimeRef, canvas, hiddenCanvas,
  \* BackgroundFilteredVideo, which has the refs of the App but for
  \* isProcessingActiveRef in place of isDetectingRef
  isProcessingActiveRef, isVideoReady, effectEnabled,
  \* environment: the last value of performance.now(), the browser's armed
  \* animation frame callbacks, the provider's outstanding requests
  clock, rafQueue, sendQueue,
  \* history: the number of runs started, and the step just taken with what it
  \* handed to the output canvas and to the stats callback
  runs, last,
  \* effectsProcessor: the ImageData objects that exist, in order of creation,
  \* and the call of applyGrayscaleToBackground under study
  imageData, call

vars == << isModelLoaded, error, segmentationRef, canvasRef, latestResultRef,
           sessionIdRef, isProcessingEnabledRef,
           isDetectingRef, isFrameProcessingRef, animationFrameRef, fpsCounterRef,
           lastFrameTimeRef, canvas, hiddenCanvas,
           isProcessingActiveRef, isVideoReady, effectEnabled,
           clock, rafQueue, sendQueue,
           runs, last, imageData, call >>

\* ---- values
Null == << >>
Some(x) == << x >>

Min(a, b) == IF a < b THEN a ELSE b


\* the <video> element's intrinsic size
video == [videoWidth |-> MaxDim, videoHeight |-> MaxDim]

\* a <canvas> before anything sized it
DefaultCanvas == [width |-> 300, height |-> 150]

\* the record of the step just taken:
\*   op       "init", "initialize", "start", "stop", "tick" (an animation frame
\*            callback) or "reply" (the provider answers a request); for a
\*            caller of the hook alone "enable", "reset", "cleanup", "request"
\*   outcome  how far processFrame got in this step: "none" (not called),
\*            "inactive", "dropped", "unavailable", "sent", "threw" or "done";
\*            for a caller of the hook alone "sent" or "returned"
\*   results  what the provider handed to onResults, if it called it
\*   frame    the frame the resumed tick had captured
\*   mask     what useSegmentation.processFrame returned to the resumed tick
\*   wrote    what the tick put on the output canvas: "none", "composite" (the
\*            compositor's result for frame and mask) or "raw" (the video itself)
\*   pushed   whether an FPS sample was appended
\*   stats    the argument of the stats callback, if it was invoked
Ev(op) ==
  [op |-> op, outcome |-> "none", results |-> Null, frame |-> Null, mask |-> Null,
   wrote |-> "none", pushed |-> FALSE, stats |-> Null]

\* the state as one record
St ==
  [isModelLoaded |-> isModelLoaded, error |-> error,
   segmentationRef |-> segmentationRef, canvasRef |-> canvasRef,
   latestResultRef |-> latestResultRef, sessionIdRef |-> sessionIdRef,
   isProcessingEnabledRef |-> isProcessingEnabledRef,
   isDetectingRef |-> isDetectingRef, isFrameProcessingRef |-> isFrameProcessingRef,
   animationFrameRef |-> animationFrameRef, fpsCounterRef |-> fpsCounterRef,
   lastFrameTimeRef |-> lastFrameTimeRef,
   canvas |-> canvas, hiddenCanvas |-> hiddenCanvas,
   isProcessingActiveRef |-> isProcessingActiveRef,
   isVideoReady |-> isVideoReady, effectEnabled |-> effectEnabled,
   clock |-> clock, rafQueue |-> rafQueue, sendQueue |-> sendQueue,
   runs |-> runs, last |-> last]

Commit(s) ==
  /\ isModelLoaded' = s.isModelLoaded
  /\ error' = s.error
  /\ segmentationRef' = s.segmentationRef
  /\ canvasRef' = s.canvasRef
  /\ latestResultRef' = s.latestResultRef
  /\ sessionIdRef' = s.sessionIdRef
  /\ isProcessingEnabledRef' = s.isProcessingEnabledRef
  /\ isDetectingRef' = s.isDetectingRef
  /\ isFrameProcessingRef' = s.isFrameProcessingRef
  /\ animationFrameRef' = s.animationFrameRef
  /\ fpsCounterRef' = s.fpsCounterRef
  /\ lastFrameTimeRef' = s.lastFrameTimeRef
  /\ canvas' = s.canvas
  /\ hiddenCanvas' = s.hiddenCanvas
  /\ isProcessingActiveRef' = s.isProcessingActiveRef
  /\ isVideoReady' = s.isVideoReady
  /\ effectEnabled' = s.effectEnabled
  /\ clock' = s.clock
  /\ rafQueue' = s.rafQueue
  /\ sendQueue' = s.sendQueue
  /\ runs' = s.runs
  /\ last' = s.last
  /\ UNCHANGED << imageData, call >>

\* ---- useSegmentation

\* an initialization that fails only after the provider was stored
initializeSegmentation_failsLate(s, ok) ==
  IF ok
  THEN [s EXCEPT !.canvasRef = TRUE, !.segmentationRef = TRUE, !.isModelLoaded = TRUE]
  ELSE [s EXCEPT !.canvasRef = TRUE, !.segmentationRef = TRUE, !.isModelLoaded = TRUE,
                 !.error = TRUE]

\* the mount effect: creates the provider and registers onResults, or fails
initializeSegmentation(s, ok) ==
  IF ok
  THEN [s EXCEPT !.canvasRef = TRUE, !.segmentationRef = TRUE, !.isModelLoaded = TRUE]
  ELSE [s EXCEPT !.canvasRef = TRUE, !.error = TRUE]

\* reset without the increment of sessionIdRef
reset_keepsSession(s) ==
  [s EXCEPT !.isProcessingEnabledRef = FALSE,
            !.latestResultRef = Null]

\* reset without the clearing of latestResultRef
reset_keepsCache(s) ==
  [s EXCEPT !.isProcessingEnabledRef = FALSE,
            !.sessionIdRef = @ + 1]

reset(s) ==
  [s EXCEPT !.isProcessingEnabledRef = FALSE,
            !.latestResultRef = Null,
            !.sessionIdRef = @ + 1]

\* enable without the clearing of latestResultRef
enable_keepsCache(s) ==
  [s EXCEPT !.isProcessingEnabledRef = TRUE]

enable(s) ==
  [s EXCEPT !.isProcessingEnabledRef = TRUE,
            !.latestResultRef = Null]

\* cleanup that keeps the hook's canvas
cleanup_keepsCanvas(s) ==
  [s EXCEPT !.segmentationRef = FALSE,
            !.latestResultRef = Null,
            !.isProcessingEnabledRef = FALSE]

\* lines 114-122
cleanup(s) ==
  [s EXCEPT !.segmentationRef = FALSE,
            !.canvasRef = FALSE,
            !.latestResultRef = Null,
            !.isProcessingEnabledRef = FALSE]

\* onResults without the test of isProcessingEnabledRef
onResults_noEnabledTest(s, results) ==
  IF results.segmentationMask = Null THEN s
  ELSE IF ~s.canvasRef THEN s
  ELSE [s EXCEPT !.latestResultRef = results.segmentationMask]

\* onResults that keeps the first mask it cached
onResults_keepsFirst(s, results) ==
  IF ~s.isProcessingEnabledRef THEN s
  ELSE IF results.segmentationMask = Null THEN s
  ELSE IF ~s.canvasRef THEN s
  ELSE IF s.latestResultRef # Null THEN s
  ELSE [s EXCEPT !.latestResultRef = results.segmentationMask]

\* onResults that empties the cache when the results carry no mask
onResults_clearsWithoutMask(s, results) ==
  IF ~s.isProcessingEnabledRef THEN s
  ELSE IF results.segmentationMask = Null THEN [s EXCEPT !.latestResultRef = Null]
  ELSE IF ~s.canvasRef THEN s
  ELSE [s EXCEPT !.latestResultRef = results.segmentationMask]

\* the provider's result callback; results.segmentationMask is Null or Some(mask)
onResults(s, results) ==
  IF ~s.isProcessingEnabledRef THEN s
  ELSE IF results.segmentationMask = Null THEN s
  ELSE IF ~s.canvasRef THEN s
  ELSE [s EXCEPT !.latestResultRef = results.segmentationMask]

\* useSegmentation.processFrame as any caller sees it, up to its await: it
\* returns null at once (lines 98-100) or hands the request to the provider
segmentationProcessFrame(s, request) ==
  IF ~s.segmentationRef \/ ~s.isModelLoaded
  THEN [s EXCEPT !.last.outcome = "returned", !.last.mask = Null]
  ELSE [s EXCEPT !.sendQueue = @ (+) SetToBag({request}), !.last.outcome = "sent"]

\* ---- performance tracking

RECURSIVE Gcd(_, _)
Gcd(a, b) == IF b = 0 THEN a ELSE Gcd(b, a % b)

Lcm(a, b) == (a * b) \div Gcd(a, b)

RECURSIVE CommonDen(_)
CommonDen(samples) ==
  IF samples = << >> THEN 1 ELSE Lcm(Head(samples).den, CommonDen(Tail(samples)))

RECURSIVE SumNum(_, _)
SumNum(samples, den) ==
  IF samples = << >> THEN 0
  ELSE Head(samples).num * (den \div Head(samples).den) + SumNum(Tail(samples), den)

\* Math.round of the non-negative rational num/den
MathRound(num, den) == (2 * num + den) \div (2 * den)

\* Math.round(fpsCounter.reduce((a, b) => a + b, 0) / fpsCounter.length)
avgFps(samples) ==
  MathRound(SumNum(samples, CommonDen(samples)), CommonDen(samples) * Len(samples))

pushFps_evictsNewest(samples, currentFps) ==
  LET pushed == Append(samples, currentFps)
  IN IF Len(pushed) > FpsWindow THEN SubSeq(pushed, 1, FpsWindow) ELSE pushed

\* push(currentFps); if (length > 30) shift()
pushFps(samples, currentFps) ==
  LET pushed == Append(samples, currentFps)
  IN IF Len(pushed) > FpsWindow THEN Tail(pushed) ELSE pushed

\* ---- browser frame queue

Handles(q) == { e.handle : e \in q }

\* animationFrameRef.current = requestAnimationFrame(processFrame)
requestAnimationFrame(s, run) ==
  LET used == Handles(s.rafQueue)
      h == CHOOSE k \in 1..(Cardinality(used) + 1) :
             k \notin used /\ \A j \in 1..(k - 1) : j \in used
  IN [s EXCEPT !.rafQueue = @ \cup {[handle |-> h, run |-> run]},
               !.animationFrameRef = h]

cancelAnimationFrame(s, h) ==
  [s EXCEPT !.rafQueue = { e \in @ : e.handle # h }]

\* ---- mask compositor interface

\* the test comparing widths only
areCompatibleDimensions_widthOnly(imageData1, imageData2) ==
  imageData1.width = imageData2.width

areCompatibleDimensions(imageData1, imageData2) ==
  /\ imageData1.width = imageData2.width
  /\ imageData1.height = imageData2.height

\* ---- App: the frame scheduler

\* the unavailable branch leaving the guard set
skipFrame_keepsGuard(s, run) ==
  LET s1 == [s EXCEPT !.last.outcome = "unavailable"]
  IN IF s1.isDetectingRef THEN requestAnimationFrame(s1, run) ELSE s1

\* lines 784-788: the frame source is unavailable, paused or ended
skipFrame(s, run) ==
  LET s1 == [s EXCEPT !.isFrameProcessingRef = FALSE, !.last.outcome = "unavailable"]
  IN IF s1.isDetectingRef THEN requestAnimationFrame(s1, run) ELSE s1

\* lines 840-844: the end of every tick that did not return early
\* the end of a tick without the arming of the next one
finishFrame_noRearm(s, run) ==
  [s EXCEPT !.isFrameProcessingRef = FALSE]

\* the end of a tick that arms the next one without the test of isDetectingRef
finishFrame_alwaysRearms(s, run) ==
  requestAnimationFrame([s EXCEPT !.isFrameProcessingRef = FALSE], run)

finishFrame(s, run) ==
  LET s1 == [s EXCEPT !.isFrameProcessingRef = FALSE]
  IN IF s1.isDetectingRef THEN requestAnimationFrame(s1, run) ELSE s1

\* lines 813-835: timing and FPS
recordStats(s, startTime) ==
  LET endTime == s.clock
      processingTime == endTime - startTime
      now == s.clock
      deltaTime == now - s.lastFrameTimeRef
      s1 == IF deltaTime > 0
            THEN LET counter == pushFps(s.fpsCounterRef, [num |-> 1000, den |-> deltaTime])
                 IN [s EXCEPT !.fpsCounterRef = counter,
                              !.last.pushed = TRUE,
                              !.last.stats = Some([fps |-> avgFps(counter),
                                                   processingTime |-> processingTime])]
            ELSE s
  IN [s1 EXCEPT !.lastFrameTimeRef = now]

\* lines 806-811: composite with a compatible mask, else pass the video through
drawFrame(s, frameData, segmentationMask) ==
  IF segmentationMask # Null /\ areCompatibleDimensions(frameData, segmentationMask[1])
  THEN [s EXCEPT !.last.wrote = "composite"]
  ELSE [s EXCEPT !.last.wrote = "raw"]

\* a catch block that leaves the tick at once
catchFrameError_returns(s, run) ==
  [s EXCEPT !.last.outcome = "threw"]

\* lines 836-844: the catch block, and what follows the try statement
catchFrameError(s, run) ==
  finishFrame([s EXCEPT !.last.outcome = "threw"], run)

\* the guard branch releasing the guard it found set
dropFrame_clearsGuard(s, run) ==
  requestAnimationFrame([s EXCEPT !.last.outcome = "dropped",
                                  !.isFrameProcessingRef = FALSE], run)

\* the guard branch counting the dropped tick as a frame
dropFrame_recordsSample(s, run) ==
  requestAnimationFrame(
    [s EXCEPT !.last.outcome = "dropped", !.last.pushed = TRUE,
              !.fpsCounterRef = pushFps(@, [num |-> 1000, den |-> 1])], run)

\* lines 770-773: a tick is already being processed
dropFrame(s, run) ==
  requestAnimationFrame([s EXCEPT !.last.outcome = "dropped"], run)

\* processFrame from the return of `await processSegmentation(video)` to its end;
\* throws: an exception is raised while compositing or drawing
processFrameResume(s, tick, segmentationMask, throws) ==
  LET s0 == [s EXCEPT !.last.frame = Some(tick.frame), !.last.mask = segmentationMask]
  IN IF throws
     THEN catchFrameError(s0, tick.run)
     ELSE finishFrame(
            recordStats(
              drawFrame([s0 EXCEPT !.last.outcome = "done"], tick.frame, segmentationMask),
              tick.startTime),
            tick.run)

\* useSegmentation.processFrame up to `await segmentationRef.current.send(...)`:
\* without a provider it returns null at once and the tick goes on in the same
\* task; else the request is handed to the provider and the tick is suspended
processSegmentation(s, tick, throws) ==
  IF ~s.segmentationRef \/ ~s.isModelLoaded
  THEN processFrameResume(s, tick, Null, throws = "draw")
  ELSE [s EXCEPT !.sendQueue = @ (+) SetToBag({tick}), !.last.outcome = "sent"]

\* processFrame from its start to `await processSegmentation(video)`;
\* paused: the video is paused or ended; throws: "capture" raises in
\* drawImage/getImageData, "draw" after the await
processFrame(s, run, paused, throws) ==
  IF ~s.isDetectingRef THEN [s EXCEPT !.last.outcome = "inactive"]
  ELSE IF s.isFrameProcessingRef THEN dropFrame(s, run)
  ELSE LET s1 == [s EXCEPT !.isFrameProcessingRef = TRUE]
           startTime == s1.clock
       IN IF paused THEN skipFrame(s1, run)
          ELSE LET size == [width |-> video.videoWidth, height |-> video.videoHeight]
                   s2 == IF s1.canvas # size
                         THEN [s1 EXCEPT !.canvas = size, !.hiddenCanvas = size]
                         ELSE s1
               IN IF throws = "capture"
                  THEN catchFrameError(s2, run)
                  ELSE LET frameData == [width |-> s2.hiddenCanvas.width,
                                         height |-> s2.hiddenCanvas.height,
                                         t |-> s2.clock, run |-> run,
                                         capturedIn |-> s2.runs]
                           tick == [run |-> run, frame |-> frameData,
                                    startTime |-> startTime,
                                    sessionId |-> s2.sessionIdRef]
                       IN processSegmentation(s2, tick, throws)

\* startDetection without the test of isSegmentationLoaded
startDetection_noLoadedTest(s, paused, throws) ==
  LET size == [width |-> video.videoWidth, height |-> video.videoHeight]
      s1 == [s EXCEPT !.canvas = size, !.hiddenCanvas = size,
                      !.isDetectingRef = TRUE,
                      !.runs = @ + 1]
  IN processFrame(enable(s1), s1.runs, paused, throws)

\* lines 739-765 and 847; the refs to the video and the canvases are set for as
\* long as the component is mounted
startDetection(s, paused, throws) ==
  IF ~s.isModelLoaded THEN s
  ELSE LET size == [width |-> video.videoWidth, height |-> video.videoHeight]
           s1 == [s EXCEPT !.canvas = size, !.hiddenCanvas = size,
                           !.isDetectingRef = TRUE,
                           !.runs = @ + 1]
       IN processFrame(enable(s1), s1.runs, paused, throws)

stopDetection(s) ==
  LET s1 == [s EXCEPT !.isDetectingRef = FALSE, !.isFrameProcessingRef = FALSE]
      s2 == IF s1.animationFrameRef # 0
            THEN [cancelAnimationFrame(s1, s1.animationFrameRef)
                    EXCEPT !.animationFrameRef = 0]
            ELSE s1
  IN reset([s2 EXCEPT !.fpsCounterRef = << >>, !.lastFrameTimeRef = 0])

\* ---- the state machine

Throws == {"none", "capture", "draw"}

\* masks the provider may deliver for a request: any size, or none at all
MaskSizes ==
  { [width |-> video.videoWidth - dw, height |-> video.videoHeight - dh] :
      dw \in 0..1, dh \in 0..1 }

Results(tick) ==
  { [segmentationMask |-> Null] } \cup
  { [segmentationMask |-> Some([width |-> size.width, height |-> size.height,
                                sessionId |-> tick.sessionId])] : size \in MaskSizes }

InitRefs ==
  /\ isModelLoaded = FALSE
  /\ error = FALSE
  /\ segmentationRef = FALSE
  /\ canvasRef = FALSE
  /\ latestResultRef = Null
  /\ sessionIdRef = 0
  /\ isProcessingEnabledRef = TRUE
  /\ isDetectingRef = FALSE
  /\ isFrameProcessingRef = FALSE
  /\ animationFrameRef = 0
  /\ fpsCounterRef = << >>
  /\ lastFrameTimeRef = 0
  /\ canvas = DefaultCanvas
  /\ hiddenCanvas = DefaultCanvas
  /\ isProcessingActiveRef = FALSE
  /\ isVideoReady = FALSE
  /\ effectEnabled = FALSE
  /\ clock = 0
  /\ rafQueue = {}
  /\ sendQueue = EmptyBag
  /\ runs = 0
  /\ last = Ev("init")

Init ==
  /\ InitRefs
  /\ imageData = << >>
  /\ call = Null

\* values performance.now() may return next: the time origin is page load;
\* clock is the value it returned last, and a step that does not call it is
\* given that value
Now == { now \in 1..MaxClock : now >= clock }

Begin(op, now) == [St EXCEPT !.last = Ev(op), !.clock = now]

\* the mount effect of useSegmentation
InitializeSegmentation ==
  /\ ~isModelLoaded /\ ~error
  /\ \E ok \in BOOLEAN : Commit(initializeSegmentation(Begin("initialize", clock), ok))

\* the Start Detection button
StartDetection ==
  /\ ~isDetectingRef
  /\ runs < MaxRuns
  /\ \E now \in Now \cup {clock}, paused \in BOOLEAN, throws \in Throws :
       /\ paused => throws = "none"
       /\ IF isModelLoaded THEN now \in Now
                           ELSE now = clock /\ ~paused /\ throws = "none"
       /\ Commit(startDetection(Begin("start", now), paused, throws))

\* the Stop Detection button
StopDetection ==
  /\ isDetectingRef
  /\ Commit(stopDetection(Begin("stop", clock)))

\* the browser runs an armed animation frame callback
AnimationFrame ==
  \E e \in rafQueue, now \in Now, paused \in BOOLEAN, throws \in Throws :
    /\ paused => throws = "none"
    /\ (~isDetectingRef \/ isFrameProcessingRef) =>
         (now = clock /\ ~paused /\ throws = "none")
    /\ Commit(processFrame([Begin("tick", now) EXCEPT !.rafQueue = @ \ {e}],
                           e.run, paused, throws))

\* useSegmentation.processFrame from the settling of send() to its return: the
\* cached mask, or null when send() rejected
processSegmentationReturn(s, ok) ==
  IF ok THEN s.latestResultRef ELSE Null

\* the provider answers an outstanding request: it invokes the result callback
\* (unless it fails first), then send() settles and, in the same chain of
\* microtasks, useSegmentation.processFrame returns and the suspended tick
\* runs to its end
ProviderReplies ==
  \E tick \in BagToSet(sendQueue), now \in Now, throws \in BOOLEAN :
    /\ throws => now = clock
    /\ LET s0 == [Begin("reply", now) EXCEPT !.sendQueue = @ (-) SetToBag({tick})]
       IN \/ \E results \in Results(tick) :
               LET s1 == onResults([s0 EXCEPT !.last.results = Some(results)], results)
               IN Commit(processFrameResume(s1, tick,
                                            processSegmentationReturn(s1, TRUE), throws))
          \/ Commit(processFrameResume(s0, tick,
                                       processSegmentationReturn(s0, FALSE), throws))

Next ==
  \/ InitializeSegmentation
  \/ StartDetection
  \/ StopDetection
  \/ AnimationFrame
  \/ ProviderReplies

Spec == Init /\ [][Next]_vars

\* the ticks between "guard set" and "guard cleared": every other part of a tick
\* runs without interleaving, so these are the ticks suspended in their await
InFlight == BagCardinality(sendQueue)

\* the App with a browser that runs every armed animation frame callback and
\* a provider that settles every send(): weak fairness of AnimationFrame and
\* of ProviderReplies, which are enabled when a callback is armed and when a
\* request is outstanding, and whose steps are the ones that leave "tick" and
\* "reply" in last.op
SpecFair ==
  /\ Spec
  /\ ([]<>(rafQueue = {}) \/ []<><<last'.op = "tick">>_vars)
  /\ ([]<>(InFlight = 0) \/ []<><<last'.op = "reply">>_vars)

\* ---- useSegmentation with an arbitrary caller

HookEnable ==
  \E s \in {Begin("enable", clock)} : Commit(enable(s))

HookReset ==
  /\ sessionIdRef < MaxRuns
  /\ Commit(reset(Begin("reset", clock)))

HookCleanup ==
  \E s \in {Begin("cleanup", clock)} : Commit(cleanup(s))

\* the caller awaits processFrame(video)
HookRequest ==
  /\ InFlight < MaxPending
  /\ Commit(segmentationProcessFrame(Begin("request", clock),
                                     [sessionId |-> sessionIdRef]))

\* the provider answers a request: onResults (unless send() rejects), then
\* processFrame returns to its caller
HookReplies ==
  \E request \in BagToSet(sendQueue) :
    LET s0 == [Begin("reply", clock) EXCEPT !.sendQueue = @ (-) SetToBag({request}),
                                            !.last.outcome = "returned"]
    IN \/ \E results \in Results(request) :
            LET s1 == onResults([s0 EXCEPT !.last.results = Some(results)], results)
            IN Commit([s1 EXCEPT !.last.mask = processSegmentationReturn(s1, TRUE)])
       \/ Commit([s0 EXCEPT !.last.mask = processSegmentationReturn(s0, FALSE)])

NextHook ==
  \/ InitializeSegmentation
  \/ HookEnable
  \/ HookReset
  \/ HookCleanup
  \/ HookRequest
  \/ HookReplies

SpecHook == Init /\ [][NextHook]_vars

\* the runs in which the timestamps of the ticks that reach their FPS tracking
\* increase strictly: each is later than the one stored by the tick before
StrictClock == last'.outcome = "done" => clock' > lastFrameTimeRef

NextStrict == Next /\ StrictClock

SpecStrict == Init /\ [][NextStrict]_vars

\* ---- the FPS tracking of processFrame on its own: a long run of completed
\* ticks, each one later than the last by 0..MaxDelta ms and never by less than
\* the tick before it, until the clock reaches TrackerHorizon

MaxDelta == 2

TrackerHorizon == MaxDelta * (FpsWindow + 2)

RecordTick ==
  \E deltaTime \in 0..MaxDelta :
    /\ clock + deltaTime <= TrackerHorizon
    /\ (deltaTime > 0 /\ fpsCounterRef # << >>) =>
         deltaTime >= fpsCounterRef[Len(fpsCounterRef)].den
    /\ Commit(recordStats(Begin("record", clock + deltaTime), clock + deltaTime))

NextTracker ==
  \/ RecordTick

SpecTracker == Init /\ [][NextTracker]_vars

\* ---- BackgroundFilteredVideo: the effect of lines 55-273 and its callbacks

\* animationFrameRef.current = requestAnimationFrame(callback), callback being
\* processVideoFrame or drawVideoDirectly
requestVideoFrame(s, callback, run) ==
  LET used == Handles(s.rafQueue)
      h == CHOOSE k \in 1..(Cardinality(used) + 1) :
             k \notin used /\ \A j \in 1..(k - 1) : j \in used
  IN [s EXCEPT !.rafQueue = @ \cup {[handle |-> h, run |-> run, callback |-> callback]},
               !.animationFrameRef = h]

\* lines 252-258: the end of every tick that did not return early
finishVideoFrame(s, run) ==
  LET s1 == [s EXCEPT !.isFrameProcessingRef = FALSE]
  IN IF s1.isProcessingActiveRef
     THEN requestVideoFrame(s1, "processVideoFrame", run)
     ELSE s1

\* a test after the await that always finds the processing active
stillActive_always(s) == TRUE

\* line 202: the test of isProcessingActiveRef after the await
stillActive(s) == s.isProcessingActiveRef

\* lines 203-205: the tick gives up
abandonVideoFrame(s) ==
  [s EXCEPT !.isFrameProcessingRef = FALSE, !.last.outcome = "abandoned"]

\* processVideoFrame from the return of `await processFrame(video)` to its end
processVideoFrameResume(s, tick, segmentationMask, throws) ==
  LET s0 == [s EXCEPT !.last.frame = Some(tick.frame), !.last.mask = segmentationMask]
  IN IF ~stillActive(s0) THEN abandonVideoFrame(s0)
     ELSE IF throws
          THEN finishVideoFrame([s0 EXCEPT !.last.outcome = "threw"], tick.run)
          ELSE finishVideoFrame(
                 recordStats(
                   drawFrame([s0 EXCEPT !.last.outcome = "done"], tick.frame,
                             segmentationMask),
                   tick.startTime),
                 tick.run)

\* processVideoFrame from its start to `await processFrame(video)`
processVideoFrame(s, run, paused, throws) ==
  IF ~s.isProcessingActiveRef THEN [s EXCEPT !.last.outcome = "inactive"]
  ELSE IF s.isFrameProcessingRef
       THEN requestVideoFrame([s EXCEPT !.last.outcome = "dropped"],
                              "processVideoFrame", run)
       ELSE LET s1 == [s EXCEPT !.isFrameProcessingRef = TRUE]
            IN IF paused
               THEN finishVideoFrame([s1 EXCEPT !.last.outcome = "unavailable"], run)
               ELSE IF throws = "capture"
                    THEN finishVideoFrame([s1 EXCEPT !.last.outcome = "threw"], run)
                    ELSE LET frameData == [width |-> s1.hiddenCanvas.width,
                                           height |-> s1.hiddenCanvas.height,
                                           t |-> s1.clock, run |-> run,
                                           capturedIn |-> s1.runs]
                             tick == [run |-> run, frame |-> frameData,
                                      startTime |-> s1.clock,
                                      sessionId |-> s1.sessionIdRef]
                         IN IF ~s1.segmentationRef \/ ~s1.isModelLoaded
                            THEN processVideoFrameResume(s1, tick, Null, throws = "draw")
                            ELSE [s1 EXCEPT !.sendQueue = @ (+) SetToBag({tick}),
                                            !.last.outcome = "sent"]

\* lines 95-108: the video drawn as it is while the effect is off
drawVideoDirectly(s, run, paused) ==
  IF paused THEN [s EXCEPT !.last.outcome = "unavailable"]
  ELSE requestVideoFrame([s EXCEPT !.last.outcome = "direct", !.last.wrote = "raw"],
                         "drawVideoDirectly", run)

\* lines 111-118 and 264-272: the cleanup the effect returns
effectCleanup(s) ==
  LET s1 == [s EXCEPT !.isProcessingActiveRef = FALSE, !.isFrameProcessingRef = FALSE]
  IN IF s1.animationFrameRef # 0
     THEN [cancelAnimationFrame(s1, s1.animationFrameRef) EXCEPT !.animationFrameRef = 0]
     ELSE s1

\* lines 55-262: the body of the effect (the clearing of the canvases is not
\* part of the state)
mainEffect(s, paused, throws) ==
  IF ~s.isVideoReady \/ ~s.isModelLoaded \/ ~s.effectEnabled
  THEN LET s1 == [s EXCEPT !.isProcessingActiveRef = FALSE,
                           !.isFrameProcessingRef = FALSE]
           s2 == IF ~s1.effectEnabled
                 THEN [reset(s1) EXCEPT !.fpsCounterRef = << >>, !.lastFrameTimeRef = 0]
                 ELSE s1
       IN IF s2.isVideoReady /\ ~s2.effectEnabled
          THEN drawVideoDirectly(s2, s2.runs, paused)
          ELSE s2
  ELSE LET s1 == enable([s EXCEPT !.isProcessingActiveRef = TRUE, !.runs = @ + 1])
           s2 == [s1 EXCEPT !.fpsCounterRef = << >>, !.lastFrameTimeRef = 0]
       IN processVideoFrame(s2, s2.runs, paused, throws)

\* a dependency of the effect changed: React runs the cleanup of the last run
\* of the effect, then its body
rerunEffect(s, paused, throws) == mainEffect(effectCleanup(s), paused, throws)

\* lines 34-52
handleVideoLoadedMetadata(s) ==
  LET size == [width |-> video.videoWidth, height |-> video.videoHeight]
  IN [s EXCEPT !.canvas = size, !.hiddenCanvas = size, !.isVideoReady = TRUE]

\* what a run of the effect in state s reads of its environment: the clock if
\* it gets to capture a frame, the video's paused flag if it touches the video
EffectReads(s, now, paused, throws) ==
  LET starts == s.isVideoReady /\ s.isModelLoaded /\ s.effectEnabled
      direct == s.isVideoReady /\ ~s.effectEnabled
  IN /\ paused => (throws = "none" /\ (starts \/ direct))
     /\ IF starts /\ ~paused THEN now \in Now
                             ELSE now = clock /\ throws = "none"

Mounted == last.op # "init"

\* the component mounts: the first run of the effect
VideoMount ==
  /\ ~Mounted
  /\ \E s \in {Begin("mount", clock)} : Commit(mainEffect(s, FALSE, "none"))

\* useSegmentation's initialization settles; isModelLoaded is a dependency
VideoModelSettles ==
  /\ Mounted /\ ~isModelLoaded /\ ~error
  /\ \E ok \in BOOLEAN, now \in Now \cup {clock}, paused \in BOOLEAN, throws \in Throws :
       LET s == initializeSegmentation(Begin("initialize", now), ok)
       IN IF ok
          THEN EffectReads(s, now, paused, throws) /\ Commit(rerunEffect(s, paused, throws))
          ELSE now = clock /\ ~paused /\ throws = "none" /\ Commit(s)

\* the video's loadedmetadata event; isVideoReady is a dependency
VideoLoadedMetadata ==
  /\ Mounted /\ ~isVideoReady
  /\ \E now \in Now \cup {clock}, paused \in BOOLEAN, throws \in Throws :
       LET s == handleVideoLoadedMetadata(Begin("metadata", now))
       IN EffectReads(s, now, paused, throws) /\ Commit(rerunEffect(s, paused, throws))

\* sessionIdRef values in the component's lifetime: one reset() per run of the
\* effect with the effect off
MaxSessions == MaxRuns + 3

\* the parent toggles the effectEnabled prop, a dependency
ToggleEffect ==
  /\ Mounted
  /\ IF effectEnabled THEN sessionIdRef < MaxSessions ELSE runs < MaxRuns
  /\ \E now \in Now \cup {clock}, paused \in BOOLEAN, throws \in Throws :
       LET s == [Begin("toggle", now) EXCEPT !.effectEnabled = ~@]
       IN EffectReads(s, now, paused, throws) /\ Commit(rerunEffect(s, paused, throws))

\* the browser runs an armed animation frame callback
VideoAnimationFrame ==
  \E e \in rafQueue, now \in Now, paused \in BOOLEAN, throws \in Throws :
    LET s == [Begin("tick", now) EXCEPT !.rafQueue = @ \ {e}]
    IN /\ paused => throws = "none"
       /\ IF e.callback = "drawVideoDirectly"
          THEN now = clock /\ throws = "none" /\ Commit(drawVideoDirectly(s, e.run, paused))
          ELSE /\ (~isProcessingActiveRef \/ isFrameProcessingRef \/ paused) =>
                    (now = clock /\ throws = "none")
               /\ (~isProcessingActiveRef \/ isFrameProcessingRef) => ~paused
               /\ Commit(processVideoFrame(s, e.run, paused, throws))

\* the provider answers an outstanding request and the suspended tick resumes
VideoProviderReplies ==
  \E tick \in BagToSet(sendQueue), now \in Now, throws \in BOOLEAN :
    /\ (throws \/ ~isProcessingActiveRef) => now = clock
    /\ LET s0 == [Begin("reply", now) EXCEPT !.sendQueue = @ (-) SetToBag({tick})]
       IN \/ \E results \in Results(tick) :
               LET s1 == onResults([s0 EXCEPT !.last.results = Some(results)], results)
               IN Commit(processVideoFrameResume(s1, tick,
                                                 processSegmentationReturn(s1, TRUE), throws))
          \/ Commit(processVideoFrameResume(s0, tick,
                                            processSegmentationReturn(s0, FALSE), throws))

NextVideo ==
  \/ VideoMount
  \/ VideoModelSettles
  \/ VideoLoadedMetadata
  \/ ToggleEffect
  \/ VideoAnimationFrame
  \/ VideoProviderReplies

SpecVideo == Init /\ [][NextVideo]_vars

\* ---- effectsProcessor: applyGrayscaleToBackground

\* an ImageData of one row made of the given pixels, each << r, g, b, a >>
RECURSIVE Flatten(_)
Flatten(pixels) ==
  IF pixels = << >> THEN << >> ELSE Head(pixels) \o Flatten(Tail(pixels))

ImageData(pixels) ==
  [width |-> Len(pixels), height |-> 1, data |-> Flatten(pixels)]

\* lines 25-28: the defaults of the destructured options
thresholdOf(options) ==
  IF options.threshold = Null THEN DEFAULT_THRESHOLD ELSE options.threshold[1]

useWeightedGrayscaleOf(options) ==
  IF options.useWeightedGrayscale = Null THEN FALSE
  ELSE options.useWeightedGrayscale[1]

\* processedFrame aliasing originalFrame instead of copying it
cloneImageData_alias(heap, id) ==
  [heap |-> heap, id |-> id]

\* lines 31-35: new ImageData(new Uint8ClampedArray(originalFrame.data), ...);
\* the new object is the last one created
cloneImageData(heap, id) ==
  [heap |-> Append(heap, heap[id]), id |-> Len(heap) + 1]

\* the read of the byte after the one asked for
ByteAt_nextChannel(data, i) ==
  IF i + 2 <= Len(data) THEN Some(data[i + 2]) ELSE Null

\* data[i] of a typed array, i counted from 0: undefined past its end
ByteAt(data, i) ==
  IF i + 1 <= Len(data) THEN Some(data[i + 1]) ELSE Null

\* the test with <= in place of <
isBackground_inclusive(maskValue, threshold) ==
  maskValue # Null /\ maskValue[1] <= threshold

\* the test against threshold - 1
isBackground_belowByTwo(maskValue, threshold) ==
  maskValue # Null /\ maskValue[1] < threshold - 1

\* line 47: maskValue < threshold, false for undefined
isBackground(maskValue, threshold) ==
  maskValue # Null /\ maskValue[1] < threshold

\* the weights of r and g exchanged
weightedGray_swapped(r, g, b) ==
  [num |-> 587 * r + 299 * g + 114 * b, den |-> 1000]

\* the term of b left out
weightedGray_noBlue(r, g, b) ==
  [num |-> 299 * r + 587 * g, den |-> 1000]

\* line 57, as the exact fraction the floating-point expression approximates
weightedGray(r, g, b) ==
  [num |-> 299 * r + 587 * g + 114 * b, den |-> 1000]

\* line 60
averageGray(r, g, b) ==
  [num |-> r + g + b, den |-> 3]

\* a store that truncates, as that of a Uint8Array
ToUint8Clamp_truncates(x, err) ==
  Min(x.num \div x.den, 255)

\* the store of a number into a Uint8ClampedArray: clamped to 0..255 and
\* rounded to the nearest integer, a tie going to the even one. The number
\* stored is the double computed for the fraction x; where x is exactly
\* halfway, err is the sign of that double's rounding error, which decides
ToUint8Clamp(x, err) ==
  LET f == x.num \div x.den
      twice == 2 * (x.num % x.den)
  IN IF f >= 255 THEN 255
     ELSE IF twice > x.den THEN f + 1
     ELSE IF twice < x.den THEN f
     ELSE IF err > 0 THEN f + 1
     ELSE IF err < 0 THEN f
     ELSE IF f % 2 = 0 THEN f ELSE f + 1

\* the stores leaving the blue channel as it was
setGray_skipsBlue(data, i, gray) ==
  [data EXCEPT ![i + 1] = gray, ![i + 2] = gray]

\* lines 64-67
setGray(data, i, gray) ==
  [data EXCEPT ![i + 1] = gray, ![i + 2] = gray, ![i + 3] = gray]

\* lines 41-70, from index i on; the buffers are read and written in place
RECURSIVE grayscaleLoop(_, _, _, _, _, _, _)
grayscaleLoop(heap, processedFrame, segmentationMask, threshold, useWeightedGrayscale, fp, i) ==
  LET frameData == heap[processedFrame].data
      maskData == heap[segmentationMask].data
  IN IF i >= Len(frameData) THEN heap
     ELSE IF isBackground(ByteAt(maskData, i), threshold)
          THEN LET r == frameData[i + 1]
                   g == frameData[i + 2]
                   b == frameData[i + 3]
                   gray == IF useWeightedGrayscale THEN weightedGray(r, g, b)
                                                   ELSE averageGray(r, g, b)
                   byte == ToUint8Clamp(gray, fp[(i \div 4) + 1])
               IN grayscaleLoop(
                    [heap EXCEPT ![processedFrame].data = setGray(@, i, byte)],
                    processedFrame, segmentationMask, threshold,
                    useWeightedGrayscale, fp, i + 4)
          ELSE grayscaleLoop(heap, processedFrame, segmentationMask, threshold,
                             useWeightedGrayscale, fp, i + 4)

\* lines 20-73: the objects after the call, and the one returned
applyGrayscaleToBackground(heap, originalFrame, segmentationMask, options, fp) ==
  LET processedFrame == cloneImageData(heap, originalFrame)
  IN [heap |-> grayscaleLoop(processedFrame.heap, processedFrame.id,
                             segmentationMask, thresholdOf(options),
                             useWeightedGrayscaleOf(options), fp, 0),
      id |-> processedFrame.id]

\* ---- the calls of applyGrayscaleToBackground examined

Levels == {0, 50, 100, 200, 255}
Alphas == {0, 255}

\* single pixels of every colour over Levels
Pixels == { << r, g, b, a >> : r \in Levels, g \in Levels, b \in Levels, a \in Alphas }

\* the pixels of the longer frames
Palette ==
  { << 200, 100, 50, 255 >>, << 0, 100, 200, 128 >>,
    << 255, 255, 255, 0 >>, << 200, 50, 100, 255 >> }

SeqsUpTo(S, n) == UNION { [1..k -> S] : k \in 1..n }

Frames ==
  { ImageData(<< p >>) : p \in Pixels } \cup
  { ImageData(ps) : ps \in SeqsUpTo(Palette, MaxPixels) }

\* masks as MediaPipe draws them: the confidence in every colour channel
Confidences == {0, 126, 127, 255}

Masks ==
  { ImageData([k \in DOMAIN cs |-> << cs[k], cs[k], cs[k], 255 >>]) :
      cs \in SeqsUpTo(Confidences, MaxPixels) }

Options ==
  [threshold : {Null, Some(127)}, useWeightedGrayscale : {Null, Some(TRUE)}]

\* whether the weighted sum of pixel k of the frame is exactly halfway between
\* two integers
IsTie(frame, k) ==
  LET i == 4 * (k - 1)
  IN weightedGray(frame.data[i + 1], frame.data[i + 2], frame.data[i + 3]).num % 1000 = 500

\* the signs the rounding errors of line 57 may have, pixel by pixel; they
\* matter where the exact sum is halfway only
FpErrors(frame, options) ==
  { fp \in [1..frame.width -> {-1, 0, 1}] :
      \A k \in 1..frame.width :
        (~useWeightedGrayscaleOf(options) \/ ~IsTie(frame, k)) => fp[k] = 0 }

\* a frame, a mask (a second object, or the frame itself) and options
InitEffects ==
  /\ InitRefs
  /\ \E frame \in Frames, options \in Options :
       \E fp \in FpErrors(frame, options) :
         \/ \E mask \in Masks :
              /\ imageData = << frame, mask >>
              /\ call = [originalFrame |-> 1, segmentationMask |-> 2,
                         options |-> options, fp |-> fp, results |-> << >>,
                         twin |-> Null]
         \/ /\ imageData = << frame >>
            /\ call = [originalFrame |-> 1, segmentationMask |-> 1,
                       options |-> options, fp |-> fp, results |-> << >>,
                       twin |-> Null]

refs == << isModelLoaded, error, segmentationRef, canvasRef, latestResultRef,
           sessionIdRef, isProcessingEnabledRef,
           isDetectingRef, isFrameProcessingRef, animationFrameRef, fpsCounterRef,
           lastFrameTimeRef, canvas, hiddenCanvas,
           isProcessingActiveRef, isVideoReady, effectEnabled,
           clock, rafQueue, sendQueue, runs >>

\* applyGrayscaleToBackground(frame, mask, options), frame being the original
\* frame first and then the frame the first call returned
ApplyGrayscale(frame) ==
  LET r == applyGrayscaleToBackground(imageData, frame, call.segmentationMask,
                                      call.options, call.fp)
  IN /\ imageData' = r.heap
     /\ call' = [call EXCEPT !.results = Append(@, r.id)]
     /\ last' = Ev("composite")
     /\ UNCHANGED refs

ApplyGrayscaleToFrame ==
  /\ call # Null /\ call.results = << >>
  /\ ApplyGrayscale(call.originalFrame)

ApplyGrayscaleToResult ==
  /\ call # Null /\ Len(call.results) = 1
  /\ ApplyGrayscale(call.results[1])

\* what a mask's bytes other than the first of each pixel are replaced with
Fills == {"same", "zero", "inverted"}

\* a copy of the mask's bytes that keeps the first channel of every pixel
TwinData(data, fill) ==
  [i \in 1..Len(data) |->
     IF i % 4 = 1 \/ fill = "same" THEN data[i]
     ELSE IF fill = "zero" THEN 0
     ELSE 255 - data[i - ((i - 1) % 4)]]

\* the caller builds another mask with the same first channel and calls
\* applyGrayscaleToBackground(frame, otherMask, options) with the same frame
ApplyGrayscaleWithTwinMask ==
  /\ call # Null /\ Len(call.results) = 2 /\ call.twin = Null
  /\ \E fill \in Fills :
       LET mask == imageData[call.segmentationMask]
           heap == Append(imageData, [mask EXCEPT !.data = TwinData(@, fill)])
           r == applyGrayscaleToBackground(heap, call.originalFrame, Len(heap),
                                           call.options, call.fp)
       IN /\ imageData' = r.heap
          /\ call' = [call EXCEPT !.twin = Some([mask |-> Len(heap), result |-> r.id])]
          /\ last' = Ev("compositeTwin")
          /\ UNCHANGED refs

NextEffects ==
  \/ ApplyGrayscaleToFrame
  \/ ApplyGrayscaleToResult
  \/ ApplyGrayscaleWithTwinMask

SpecEffects == InitEffects /\ [][NextEffects]_vars

\* ---- what the claims speak of


\* some armed animation frame callback is the one animationFrameRef names
Armed(ref, queue) == ref \in Handles(queue)

\* the mask the provider handed to onResults in the step just taken, if any
Delivered(ev) ==
  IF ev.results = Null THEN Null ELSE ev.results[1].segmentationMask

\* ---- C1
\* C1: in every reachable state at most one tick's frame processing is in
\* flight, stop() followed by start() during a suspended tick included.
C1_AtMostOneTickInFlight == InFlight <= 1

\* ---- C2
\* C2: whenever a frame is composited with a mask, the session is enabled and
\* the session id current when the request producing the mask was issued is
\* the current session id.
C2_CompositedMaskIsOfCurrentSession ==
  last.wrote = "composite" =>
    /\ isProcessingEnabledRef
    /\ last.mask[1].sessionId = sessionIdRef

\* ---- C3
\* C3: a callback with a mask for a request issued before a reset(), delivered
\* with no enable() since, is rejected: the cache is and stays empty, enabled
\* and sessionId are unchanged, and requestMask returns null.
C3_CallbackAfterResetRejected ==
  [][ ( /\ last'.op = "reply"
        /\ Delivered(last') # Null
        /\ ~isProcessingEnabledRef
        /\ Delivered(last')[1].sessionId < sessionIdRef )
      => ( /\ latestResultRef = Null
           /\ latestResultRef' = Null
           /\ isProcessingEnabledRef' = isProcessingEnabledRef
           /\ sessionIdRef' = sessionIdRef
           /\ last'.mask = Null ) ]_vars

C3_Witness ==
  /\ last.op = "reply"
  /\ Delivered(last) # Null
  /\ ~isProcessingEnabledRef
  /\ Delivered(last)[1].sessionId < sessionIdRef
  /\ last.mask = Null

\* ---- C4
\* C4: after stop() returns no frame, composited or passthrough, is delivered
\* to the output sink, also by a tick that was suspended when stop() was called.
C4_NoFrameDeliveredAfterStop ==
  ~isDetectingRef => last.wrote = "none"

\* ---- C5
\* C5: a tick that fires while the guard flag is set captures no frame, issues
\* no mask request, writes nothing to the sink, appends no sample, leaves
\* lastTick, the guard and the session alone, and re-arms the next tick.
C5_DroppedTickOnlyRearms ==
  [][ (last'.op = "tick" /\ isDetectingRef /\ isFrameProcessingRef)
      => ( /\ last'.outcome = "dropped"
           /\ last'.frame = Null /\ last'.wrote = "none"
           /\ ~last'.pushed /\ last'.stats = Null
           /\ sendQueue' = sendQueue
           /\ fpsCounterRef' = fpsCounterRef
           /\ lastFrameTimeRef' = lastFrameTimeRef
           /\ isFrameProcessingRef' = isFrameProcessingRef
           /\ isDetectingRef' = isDetectingRef
           /\ latestResultRef' = latestResultRef
           /\ isProcessingEnabledRef' = isProcessingEnabledRef
           /\ sessionIdRef' = sessionIdRef
           /\ Armed(animationFrameRef', rafQueue')
           /\ Cardinality(rafQueue') = Cardinality(rafQueue) ) ]_vars

C5_Witness ==
  /\ last.op = "tick" /\ last.outcome = "dropped"
  /\ isDetectingRef /\ isFrameProcessingRef
  /\ Armed(animationFrameRef, rafQueue)

\* ---- C6
\* C6: with strictly increasing tick timestamps, every tick that passed the guard and
\* reached the end of its FPS tracking appends exactly one sample (the buffer
\* holding at most 30) and every other tick, a dropped one included, appends
\* none; so ticks of which one is dropped while a request is outstanding leave
\* as many samples as ticks completed.
C6_OneSamplePerCompletedTick ==
  [][ /\ last'.outcome = "done" =>
           /\ last'.pushed
           /\ Len(fpsCounterRef') = Min(Len(fpsCounterRef) + 1, FpsWindow)
      /\ last'.outcome \in {"inactive", "dropped", "unavailable", "sent", "threw"} =>
           /\ ~last'.pushed
           /\ fpsCounterRef' = fpsCounterRef ]_vars

\* two ticks completed, and a third arrived while a request was outstanding
C6_Witness ==
  /\ last.op = "tick" /\ last.outcome = "dropped"
  /\ InFlight >= 1
  /\ Len(fpsCounterRef) = 2

C8_ExceptionSkipsTheTick ==
  [][ last'.outcome = "threw" =>
        /\ last'.op \in {"tick", "reply"} => isDetectingRef' = isDetectingRef
        /\ last'.op = "start" => isDetectingRef'
        /\ ~isFrameProcessingRef'
        /\ isDetectingRef' => Armed(animationFrameRef', rafQueue')
        /\ last'.wrote = "none" /\ ~last'.pushed /\ last'.stats = Null
        /\ fpsCounterRef' = fpsCounterRef
        /\ lastFrameTimeRef' = lastFrameTimeRef ]_vars

C8_Witness ==
  /\ last.op = "reply" /\ last.outcome = "threw"
  /\ isDetectingRef /\ ~isFrameProcessingRef
  /\ Armed(animationFrameRef, rafQueue)

\* ---- C9
\* C9: right after stop() the running flag is false, no future tick is armed
\* and the stored handle is null, the FPS buffer is empty and lastTick is 0,
\* the session is disabled with an empty cache, and sessionId is one greater
\* than before.
C9_StopPostcondition ==
  [][ last'.op = "stop" =>
        /\ ~isDetectingRef'
        /\ rafQueue' = {} /\ animationFrameRef' = 0
        /\ fpsCounterRef' = << >> /\ lastFrameTimeRef' = 0
        /\ ~isProcessingEnabledRef' /\ latestResultRef' = Null
        /\ sessionIdRef' = sessionIdRef + 1 ]_vars

\* ---- C10
\* C10: every start() that meets its preconditions leaves the scheduler
\* running with the session enabled, the cache empty, the FPS buffer empty and
\* lastTick 0, and the first tick started but nothing recorded by it.
C10_StartPostcondition ==
  (last.op = "start" /\ isDetectingRef) =>
    /\ isProcessingEnabledRef
    /\ latestResultRef = Null
    /\ fpsCounterRef = << >> /\ lastFrameTimeRef = 0
    /\ last.outcome \in {"sent", "unavailable", "threw"}
    /\ ~last.pushed

\* ---- C11
\* C11: startDetection called while the segmentation model is not loaded, an
\* initialization failure included, changes nothing: the scheduler stays idle,
\* no tick is armed or run, no request is sent, and the session (enabled flag,
\* cache, session id) and the tracker are as they were.
C11_StartWithoutModelIsNoOp ==
  [][ (last'.op = "start" /\ ~isModelLoaded) =>
        /\ ~isDetectingRef' /\ ~isFrameProcessingRef'
        /\ last'.outcome = "none"
        /\ UNCHANGED << isModelLoaded, error, segmentationRef, canvasRef,
                        latestResultRef, sessionIdRef, isProcessingEnabledRef,
                        isDetectingRef, isFrameProcessingRef, animationFrameRef,
                        fpsCounterRef, lastFrameTimeRef, canvas, hiddenCanvas,
                        clock, rafQueue, sendQueue, runs >> ]_vars

\* startDetection was called after the initialization had failed
C11_Witness ==
  /\ last.op = "start" /\ last.outcome = "none"
  /\ error /\ ~isModelLoaded
  /\ ~isDetectingRef /\ rafQueue = {} /\ InFlight = 0

\* ---- C12
\* C12: once the initialization of the segmentation provider has failed, the
\* error state stays set for ever, and every call of processFrame (requestMask)
\* returns null at once and hands nothing to the provider, whatever calls of
\* enable() and reset() came in between.
C12_InitFailureIsPersistent ==
  [][ error =>
        /\ error' /\ ~isModelLoaded'
        /\ sendQueue' = EmptyBag
        /\ last'.op = "request" =>
             (last'.outcome = "returned" /\ last'.mask = Null) ]_vars

\* a request made after the failure, a reset() and an enable()
C12_Witness ==
  /\ error
  /\ last.op = "request" /\ last.outcome = "returned" /\ last.mask = Null
  /\ sessionIdRef >= 1 /\ isProcessingEnabledRef

\* ---- C13
\* C13: a tick that has set the guard and finds the video paused or ended
\* clears the guard and arms the next tick (the scheduler is running), and
\* does nothing else: no frame is captured, no request sent, nothing written
\* to the output canvas, no sample appended, lastFrameTimeRef is unchanged and
\* the stats callback is not invoked.
C13_UnavailableSourceOnlyRearms ==
  [][ last'.outcome = "unavailable" =>
        /\ last'.op \in {"start", "tick"}
        /\ ~isFrameProcessingRef'
        /\ isDetectingRef' /\ Armed(animationFrameRef', rafQueue')
        /\ last'.op = "tick" => Cardinality(rafQueue') = Cardinality(rafQueue)
        /\ last'.frame = Null /\ last'.mask = Null
        /\ sendQueue' = sendQueue
        /\ last'.wrote = "none"
        /\ ~last'.pushed /\ fpsCounterRef' = fpsCounterRef
        /\ lastFrameTimeRef' = lastFrameTimeRef
        /\ last'.stats = Null ]_vars

\* an animation frame callback found the video paused
C13_Witness ==
  /\ last.op = "tick" /\ last.outcome = "unavailable"
  /\ isDetectingRef /\ ~isFrameProcessingRef
  /\ Armed(animationFrameRef, rafQueue)

\* ---- the call of applyGrayscaleToBackground, as the claims speak of it

Called == call # Null /\ Len(call.results) >= 1
CalledTwice == call # Null /\ Len(call.results) = 2

Frame == imageData[call.originalFrame]
Mask == imageData[call.segmentationMask]
Result == imageData[call.results[1]]
SecondResult == imageData[call.results[2]]

PixelsOf(image) == 1..(Len(image.data) \div 4)
PixelAt(image, k) == SubSeq(image.data, 4 * k - 3, 4 * k)
ConfidenceAt(k) == Mask.data[4 * k - 3]
Threshold == thresholdOf(call.options)
Weighted == useWeightedGrayscaleOf(call.options)

AllForeground == \A k \in PixelsOf(Mask) : ConfidenceAt(k) >= Threshold
AllBackground == \A k \in PixelsOf(Mask) : ConfidenceAt(k) < Threshold

IsGray(pixel) == pixel[1] = pixel[2] /\ pixel[2] = pixel[3]

\* v is an integer of 0..255 nearest to num / den
IsNearest(v, num, den) ==
  /\ v \in 0..255
  /\ 2 * (v * den - num) <= den
  /\ 2 * (num - v * den) <= den

\* ---- C14
\* C14: when the first-channel confidence of every mask pixel is at least the
\* threshold, the frame returned holds, byte for byte, the data of the input
\* frame.
C14_AllForegroundIsIdentity ==
  (Called /\ AllForeground) => Result.data = Frame.data

\* two coloured pixels under a mask at and above the threshold 127
C14_Witness ==
  /\ Called /\ AllForeground
  /\ call.options.threshold = Some(127)
  /\ Frame.width = 2 /\ Mask.width = 2
  /\ ConfidenceAt(1) = 127 /\ ConfidenceAt(2) = 255
  /\ \A k \in PixelsOf(Frame) : ~IsGray(PixelAt(Frame, k))
  /\ Result.data = Frame.data

\* ---- C15
\* C15: when frame and mask have the same dimensions and the confidence of
\* every mask pixel is below the threshold, then with either grayscale method
\* every pixel of the frame returned has R = G = B and the alpha of the input
\* pixel.
C15_AllBackgroundIsGray ==
  (Called /\ areCompatibleDimensions(Frame, Mask) /\ AllBackground) =>
    \A k \in PixelsOf(Result) :
      /\ IsGray(PixelAt(Result, k))
      /\ PixelAt(Result, k)[4] = PixelAt(Frame, k)[4]

\* the weighted method on two coloured pixels, one of alpha 128
C15_Witness ==
  /\ Called /\ AllBackground /\ Weighted
  /\ Frame.width = 2 /\ Mask.width = 2
  /\ \A k \in PixelsOf(Frame) : ~IsGray(PixelAt(Frame, k))
  /\ PixelAt(Frame, 2)[4] = 128 /\ PixelAt(Result, 2)[4] = 128
  /\ \A k \in PixelsOf(Result) : IsGray(PixelAt(Result, k))

\* ---- C16
\* C16: a pixel whose confidence equals the threshold is left as it was, and a
\* pixel whose confidence is the threshold minus one gets R = G = B with its
\* alpha kept.
C16_ThresholdIsForeground ==
  Called =>
    \A k \in PixelsOf(Frame) \cap PixelsOf(Mask) :
      /\ ConfidenceAt(k) = Threshold => PixelAt(Result, k) = PixelAt(Frame, k)
      /\ ConfidenceAt(k) = Threshold - 1 =>
           /\ IsGray(PixelAt(Result, k))
           /\ PixelAt(Result, k)[4] = PixelAt(Frame, k)[4]

\* threshold 127: a coloured pixel of confidence 127 kept, one of 126 changed
C16_Witness ==
  /\ Called /\ Threshold = 127
  /\ Frame.width = 2 /\ Mask.width = 2
  /\ ConfidenceAt(1) = 127 /\ ConfidenceAt(2) = 126
  /\ ~IsGray(PixelAt(Frame, 1)) /\ PixelAt(Result, 1) = PixelAt(Frame, 1)
  /\ ~IsGray(PixelAt(Frame, 2)) /\ IsGray(PixelAt(Result, 2))

\* ---- C17
\* C17: under a mask whose confidences are all below the threshold, and with
\* either method, applying the function to its own result (same mask, same
\* options) returns the data of that result, byte for byte.
C17_IdempotentOnBackground ==
  (CalledTwice /\ AllBackground) => SecondResult.data = Result.data

\* the weighted method changed a frame, and the second call changed nothing
C17_Witness ==
  /\ CalledTwice /\ AllBackground /\ Weighted
  /\ areCompatibleDimensions(Frame, Mask) /\ Frame.width = 2
  /\ \A k \in PixelsOf(Frame) : PixelAt(Result, k) # PixelAt(Frame, k)
  /\ SecondResult.data = Result.data

\* ---- C18
\* C18: with the average method every background pixel (r, g, b, a) becomes
\* (v, v, v, a), v being the integer of 0..255 nearest to (r + g + b) / 3; with
\* threshold 127 the pixel (200, 100, 50) under confidence 0 becomes
\* (117, 117, 117).
C18_AverageGray ==
  (Called /\ ~Weighted) =>
    \A k \in PixelsOf(Frame) \cap PixelsOf(Mask) :
      ConfidenceAt(k) < Threshold =>
        LET p == PixelAt(Frame, k)
            q == PixelAt(Result, k)
        IN /\ IsGray(q) /\ q[4] = p[4]
           /\ IsNearest(q[1], p[1] + p[2] + p[3], 3)
           /\ (p[1] = 200 /\ p[2] = 100 /\ p[3] = 50) => q[1] = 117

C18_Witness ==
  /\ Called /\ ~Weighted /\ call.options.threshold = Some(127)
  /\ Frame.width = 1 /\ Mask.width = 1 /\ ConfidenceAt(1) = 0
  /\ PixelAt(Frame, 1) = << 200, 100, 50, 255 >>
  /\ PixelAt(Result, 1) = << 117, 117, 117, 255 >>

\* ---- C19
\* C19: with the weighted method every background pixel (r, g, b, a) becomes
\* (v, v, v, a), v being an integer of 0..255 nearest to
\* (299 r + 587 g + 114 b) / 1000; the pixel (200, 100, 50) gets 124.
C19_WeightedGray ==
  (Called /\ Weighted) =>
    \A k \in PixelsOf(Frame) \cap PixelsOf(Mask) :
      ConfidenceAt(k) < Threshold =>
        LET p == PixelAt(Frame, k)
            q == PixelAt(Result, k)
        IN /\ IsGray(q) /\ q[4] = p[4]
           /\ IsNearest(q[1], 299 * p[1] + 587 * p[2] + 114 * p[3], 1000)
           /\ (p[1] = 200 /\ p[2] = 100 /\ p[3] = 50) => q[1] = 124

C19_Witness ==
  /\ Called /\ Weighted
  /\ Frame.width = 1 /\ Mask.width = 1 /\ ConfidenceAt(1) < Threshold
  /\ PixelAt(Frame, 1) = << 200, 100, 50, 255 >>
  /\ PixelAt(Result, 1) = << 124, 124, 124, 255 >>

C21_DefaultThresholdIs127 ==
  (Called /\ call.options.threshold = Null /\ Frame.width = Mask.width) =>
    \A k \in PixelsOf(Frame) :
      /\ ConfidenceAt(k) >= 127 => PixelAt(Result, k) = PixelAt(Frame, k)
      /\ ConfidenceAt(k) < 127 => IsGray(PixelAt(Result, k))

\* ---- C22
\* C22: the FPS sample buffer never holds more than 30 samples; a tick that
\* records a sample appends it at the end, and when the buffer already held 30
\* it drops the oldest (first) one, so the buffer is the last 30 samples in
\* arrival order.
C22_WindowKeepsTheLatestSamples ==
  /\ [](Len(fpsCounterRef) <= FpsWindow)
  /\ [][ last'.pushed =>
           LET sample == [num |-> 1000, den |-> clock' - lastFrameTimeRef]
           IN fpsCounterRef' =
                IF Len(fpsCounterRef) < FpsWindow
                THEN Append(fpsCounterRef, sample)
                ELSE Append(Tail(fpsCounterRef), sample) ]_vars

\* 30 ticks 1 ms apart and a 31st 2 ms later: the first sample is gone
C22_Witness ==
  /\ last.pushed
  /\ lastFrameTimeRef = FpsWindow + 2
  /\ Len(fpsCounterRef) = FpsWindow
  /\ fpsCounterRef[1].den = 1
  /\ fpsCounterRef[FpsWindow - 1].den = 1
  /\ fpsCounterRef[FpsWindow].den = 2

\* ---- C23
\* C23: a tick that delivers a frame to the visible canvas, composited or
\* passed through, invokes the stats callback (exactly once), whatever the
\* clock reads, a timestamp equal to the previous tick's included; a tick that
\* delivers no frame does not invoke it.
C23_StatsOncePerDeliveredTick ==
  /\ last.wrote # "none" => last.stats # Null
  /\ last.wrote = "none" => last.stats = Null

\* ---- C24
\* C24: sessionId is 0 at first; every reset() adds exactly 1 to it and leaves
\* enabled false and the cache empty; no other step (initialisation, enable,
\* cleanup, a request, a provider callback) changes it. So it never decreases
\* and is the number of reset() calls made so far.
C24_SessionIdCountsResets ==
  /\ sessionIdRef = 0
  /\ [][ IF last'.op = "reset"
         THEN /\ sessionIdRef' = sessionIdRef + 1
              /\ ~isProcessingEnabledRef'
              /\ latestResultRef' = Null
         ELSE sessionIdRef' = sessionIdRef ]_vars

\* the second reset(), made while a request is outstanding
C24_Witness ==
  /\ last.op = "reset"
  /\ sessionIdRef = 2
  /\ ~isProcessingEnabledRef /\ latestResultRef = Null
  /\ InFlight >= 1

\* ---- C25
\* C25: enable() leaves enabled true and the cache empty and does not change
\* sessionId; and a mask enters the cache only in a provider callback, so every
\* mask a request returns was cached by a callback that ran after the latest
\* enable(), never before it.
C25_EnableClearsTheCache ==
  [][ /\ last'.op = "enable" =>
           /\ isProcessingEnabledRef'
           /\ latestResultRef' = Null
           /\ sessionIdRef' = sessionIdRef
      /\ (latestResultRef' # Null /\ latestResultRef' # latestResultRef) =>
           /\ last'.op = "reply"
           /\ last'.results # Null
           /\ latestResultRef' = last'.results[1].segmentationMask
      /\ last'.mask # Null =>
           /\ last'.op = "reply"
           /\ last'.mask = latestResultRef' ]_vars

\* enable() after a reset(), made while a request is outstanding
C25_Witness ==
  /\ last.op = "enable"
  /\ isProcessingEnabledRef /\ latestResultRef = Null
  /\ sessionIdRef = 1
  /\ InFlight >= 1

\* ---- C26
\* what the step taken accepts into the cache: the mask of a provider callback
\* that runs while enabled (and while the hook's canvas exists)
AcceptedMask ==
  IF /\ last'.op = "reply" /\ last'.results # Null
     /\ last'.results[1].segmentationMask # Null
     /\ isProcessingEnabledRef /\ canvasRef
  THEN last'.results[1].segmentationMask
  ELSE Null

\* the most recently accepted mask after the step taken, Null when none was
\* accepted since the latest enable(), reset() or cleanup()
LatestAccepted ==
  IF AcceptedMask # Null THEN AcceptedMask
  ELSE IF last'.op \in {"enable", "reset", "cleanup"} THEN Null
  ELSE latestResultRef

\* C26 as the spec states it: a request returns null when no callback carrying
\* a mask was accepted since the latest enable() or reset(), and the most
\* recently accepted mask otherwise.
C26_RequestReturnsLatestAccepted ==
  [][ last'.outcome = "returned" => last'.mask = LatestAccepted ]_vars

\* C26, amended: the cache holds the most recently accepted mask since the
\* latest enable(), reset() or cleanup(); a request whose send() fails returns
\* null, and every other request returns what the cache holds, null when it is
\* empty, which may be a mask accepted for an earlier request.
C26_RequestReturnsLatestAcceptedUnlessSendFails ==
  [][ /\ latestResultRef' = LatestAccepted
      /\ last'.outcome = "returned" =>
           last'.mask = IF last'.op = "reply" /\ last'.results = Null
                        THEN Null
                        ELSE LatestAccepted ]_vars

\* a request whose own callback carried no mask returns the mask accepted for
\* an earlier request
C26_Witness ==
  /\ last.op = "reply" /\ last.outcome = "returned"
  /\ last.results # Null /\ last.results[1].segmentationMask = Null
  /\ last.mask # Null /\ last.mask = latestResultRef

\* ---- C27
\* C27: whenever the scheduler is Idle (not started yet, or stopped and not
\* started again) the FPS sample buffer is empty and lastTick is 0.
C27_IdleTrackerIsReset ==
  ~isDetectingRef => (fpsCounterRef = << >> /\ lastFrameTimeRef = 0)

\* ---- C28
TwinMask == imageData[call.twin[1].mask]
TwinResult == imageData[call.twin[1].result]

\* C28: a call with the same frame and options and with a mask that agrees
\* with the first mask on the first channel of every pixel, the other three
\* channels being the same, zero or inverted, returns a frame equal to the one
\* the first call returned; with an equal mask this is two calls with equal
\* inputs giving equal outputs.
C28_OnlyTheFirstMaskChannelIsRead ==
  (call # Null /\ call.twin # Null) =>
    /\ \A k \in PixelsOf(Mask) : PixelAt(TwinMask, k)[1] = ConfidenceAt(k)
    /\ TwinResult = Result

\* the second mask differs from the first, and the call grayscaled one pixel
\* and kept the other
C28_Witness ==
  /\ call # Null /\ call.twin # Null
  /\ TwinMask.data # Mask.data
  /\ Frame.width = 2 /\ Mask.width = 2
  /\ ConfidenceAt(1) < Threshold /\ ConfidenceAt(2) >= Threshold
  /\ PixelAt(TwinResult, 1) # PixelAt(Frame, 1)
  /\ PixelAt(TwinResult, 2) = PixelAt(Frame, 2)

\* ---- C29
\* C29: the guard is set only while a tick is suspended in its request; while
\* the scheduler runs a tick is armed or suspended; and, the browser and the
\* provider being fair, whenever the guard is set while running, later the
\* scheduler has been stopped or the guard is clear and a tick is armed.
C29_TheLoopNeverStalls ==
  /\ [](isFrameProcessingRef => InFlight >= 1)
  /\ [](isDetectingRef => (rafQueue # {} \/ InFlight >= 1))
  /\ (isDetectingRef /\ isFrameProcessingRef)
       ~> (~isDetectingRef \/ (~isFrameProcessingRef /\ rafQueue # {}))

\* the second tick of a run has completed, cleared the guard and armed a third
C29_Witness ==
  /\ isDetectingRef /\ runs = 1
  /\ last.op = "reply" /\ last.outcome = "done"
  /\ Len(fpsCounterRef) = 2
  /\ ~isFrameProcessingRef /\ InFlight = 0
  /\ Armed(animationFrameRef, rafQueue)

\* ---- C30
\* C30: a tick that fires or resumes while the scheduler is stopped arms no
\* tick; and, the browser and the provider being fair, in every behaviour in
\* which the scheduler is stopped and never started again, from some point on
\* no tick is armed, no tick is suspended and the guard is clear.
C30_QuiescentAfterStop ==
  /\ [][ (~isDetectingRef /\ last'.op \in {"tick", "reply"}) =>
           rafQueue' \subseteq rafQueue ]_vars
  /\ <>[](~isDetectingRef) =>
       <>[](rafQueue = {} /\ InFlight = 0 /\ ~isFrameProcessingRef)

\* stopped after two runs, with the tick that was suspended at the last stop()
\* completed since and nothing left armed or suspended
C30_Witness ==
  /\ ~isDetectingRef /\ runs = 2
  /\ last.op = "reply" /\ last.outcome = "done"
  /\ rafQueue = {} /\ InFlight = 0 /\ ~isFrameProcessingRef

\* ---- C31
\* C31: whenever the session is disabled the cache is empty, and a request
\* that returns while the session is disabled returns null.
C31_DisabledMeansEmptyCache ==
  /\ ~isProcessingEnabledRef => latestResultRef = Null
  /\ (last.outcome = "returned" /\ ~isProcessingEnabledRef) => last.mask = Null

\* a callback that carries a mask arrives after reset(), with the session
\* disabled: nothing is cached and its request returns null
C31_Witness ==
  /\ ~isProcessingEnabledRef /\ sessionIdRef >= 1
  /\ last.op = "reply" /\ last.outcome = "returned"
  /\ last.results # Null /\ last.results[1].segmentationMask # Null
  /\ last.mask = Null /\ latestResultRef = Null

\* ---- C32
\* C32: at most one animation frame callback is armed, and when one is armed
\* the handle stored in animationFrameRef is its handle.
C32_OneArmedTickAndItsHandleStored ==
  /\ Cardinality(rafQueue) <= 1
  /\ rafQueue # {} => Armed(animationFrameRef, rafQueue)

\* ---- C33
\* C33: a frame composited onto the visible canvas was captured during the run
\* that is current when it is drawn (run is the chain of ticks that captured
\* it, capturedIn the number of runs started when it was captured).
C33_CompositedFrameIsOfCurrentRun ==
  last.wrote = "composite" => last.frame[1].capturedIn = runs

\* ---- C34
\* C34: a tick appends an FPS sample only when an earlier completed tick of
\* the run left its timestamp in lastFrameTimeRef, and the sample is 1000
\* divided by the time since that timestamp; the first tick completed after
\* start(), which finds lastFrameTimeRef = 0, appends nothing.
C34_SamplesAreBetweenCompletedTicks ==
  [][ last'.pushed =>
        /\ lastFrameTimeRef # 0
        /\ fpsCounterRef'[Len(fpsCounterRef')] =
             [num |-> 1000, den |-> clock' - lastFrameTimeRef] ]_vars

\* ---- C35
\* C35: in BackgroundFilteredVideo a tick that resumes from its await while
\* isProcessingActiveRef is false leaves the guard clear and does nothing
\* else: it draws nothing on the visible canvas, appends no sample, leaves
\* lastFrameTimeRef alone, does not invoke the stats callback and arms no tick.
C35_InactiveResumeOnlyClearsTheGuard ==
  [][ (last'.op = "reply" /\ ~isProcessingActiveRef) =>
        /\ ~isFrameProcessingRef'
        /\ last'.outcome = "abandoned"
        /\ last'.wrote = "none"
        /\ ~last'.pushed /\ fpsCounterRef' = fpsCounterRef
        /\ lastFrameTimeRef' = lastFrameTimeRef
        /\ last'.stats = Null
        /\ rafQueue' = rafQueue /\ animationFrameRef' = animationFrameRef ]_vars

\* the effect was switched off while a tick was suspended; the provider then
\* delivers a mask of the frame's size and the tick gives up
C35_Witness ==
  /\ ~isProcessingActiveRef /\ ~effectEnabled /\ runs = 1
  /\ last.op = "reply" /\ last.outcome = "abandoned"
  /\ last.results # Null /\ last.results[1].segmentationMask # Null
  /\ last.results[1].segmentationMask[1].width = last.frame[1].width
  /\ last.results[1].segmentationMask[1].height = last.frame[1].height
  /\ ~isFrameProcessingRef /\ last.wrote = "none"

\* ---- C36
\* the initialization has settled and cleanup() has been called since
CleanedUp == (isModelLoaded \/ error) /\ ~segmentationRef /\ ~canvasRef

\* C36: cleanup() leaves the session disabled, the cache empty, the provider
\* and the hook's canvas gone and sessionId as it was; from then on the
\* provider stays gone and the cache stays empty whatever is called, enable()
\* included; a request made then returns null at once without a send(), and a
\* request that was outstanding returns null.
C36_NoMaskAfterCleanup ==
  [][ /\ last'.op = "cleanup" =>
           /\ ~isProcessingEnabledRef' /\ latestResultRef' = Null
           /\ ~segmentationRef' /\ ~canvasRef'
           /\ sessionIdRef' = sessionIdRef
      /\ CleanedUp =>
           /\ CleanedUp' /\ latestResultRef' = Null
           /\ last'.op = "request" =>
                /\ last'.outcome = "returned" /\ last'.mask = Null
                /\ sendQueue' = sendQueue
           /\ last'.op = "reply" => last'.mask = Null ]_vars

\* after cleanup() and enable(), a callback carrying a mask arrives for a
\* request that was outstanding: nothing is cached and the request returns null
C36_Witness ==
  /\ CleanedUp /\ isProcessingEnabledRef
  /\ last.op = "reply" /\ last.outcome = "returned"
  /\ last.results # Null /\ last.results[1].segmentationMask # Null
  /\ last.mask = Null /\ latestResultRef = Null

\* ---- C37
\* C37: a provider callback that carries no mask leaves the cache as it was,
\* whether the session is enabled or not, and the request it answers returns
\* what the cache held before.
C37_CallbackWithoutMaskKeepsTheCache ==
  [][ (last'.op = "reply" /\ last'.results # Null
         /\ last'.results[1].segmentationMask = Null) =>
        /\ latestResultRef' = latestResultRef
        /\ last'.outcome = "returned"
        /\ last'.mask = latestResultRef ]_vars

\* enabled, with a mask narrower than the video cached: the callback of the
\* last outstanding request carries no mask, and the request returns that mask
C37_Witness ==
  /\ isProcessingEnabledRef /\ InFlight = 0
  /\ last.op = "reply" /\ last.results = Some([segmentationMask |-> Null])
  /\ latestResultRef # Null /\ latestResultRef[1].width < video.videoWidth
  /\ last.mask = latestResultRef

====
